---- MODULE Spec2Model ----
(***************************************************************************)
(* solid-flow: the FlowChart engine (src/src/components/index.tsx), the    *)
(* snapshot builder convertToLayeredGraph and getEdgeId                    *)
(* (src/src/graph/utils.ts), and the host of the Dynamic example           *)
(* (src/examples/src/Dynamic/index.tsx).                                   *)
(*                                                                         *)
(* Node ordinals and port indices are 0-based, as in the source; At(s, i)  *)
(* reads a JavaScript array.  Objects keyed by edge id are functions whose *)
(* DOMAIN is the set of keys; edgesActivesKeys keeps the insertion order   *)
(* of edgesActives, which is the order of Object.keys(edgesActives()).     *)
(* Host edge lists have unique ids and port indices within the port counts *)
(* of their nodes.                                                         *)
(***************************************************************************)
EXTENDS Integers, Sequences, FiniteSets, TLC

\* ------------------------------------------------------------------ bounds
\* Number of operations (host updates and gestures) in one behaviour.
MaxSteps == 3

\* ------------------------------------------------------- program constants
NodeWidth == 200
PortSpacing == 20
PortHalfSpacing == 10
LayoutRankSep == 250
LayoutNodeSep == 150

\* --------------------------------------------------------------- utilities
At(s, i) == s[i + 1]

Ordinals(s) == 0 .. (Len(s) - 1)

Includes(s, v) == \E k \in 1 .. Len(s) : s[k] = v

Pos(x, y) == [x |-> x, y |-> y]

\* obj[key] = value on a JavaScript object: the key is added when it is new.
Put(obj, key, value) ==
  [k \in (DOMAIN obj) \cup {key} |-> IF k = key THEN value ELSE obj[k]]

\* Object.keys order after obj[key] = ...: an existing key keeps its place.
PutKey(keys, key) == IF Includes(keys, key) THEN keys ELSE Append(keys, key)

\* prev[edgeId]?.field || 0
FieldOr0(prev, edgeId, field) ==
  IF edgeId \in DOMAIN prev THEN prev[edgeId][field] ELSE 0

\* --------------------------------------------------------------- getEdgeId
getEdgeId(nodeOutId, outputIndex, nodeInId, inputIndex) ==
  "edge_" \o nodeOutId \o ":" \o ToString(outputIndex) \o "_"
          \o nodeInId \o ":" \o ToString(inputIndex)

\* ------------------------------------------------------- the host's inputs
NodeIds == {"n1", "n2", "n3"}

NodeInputs(id) == CASE id = "n1" -> 1 [] id = "n2" -> 1 [] OTHER -> 2

NodeOutputs(id) == CASE id = "n1" -> 2 [] id = "n2" -> 1 [] OTHER -> 2

NodePosition(id) ==
  CASE id = "n1" -> Pos(100, 100) [] id = "n2" -> Pos(400, 50)
    [] OTHER -> Pos(400, 200)

HostNode(id, content) ==
  [id |-> id, position |-> NodePosition(id), content |-> content,
   inputs |-> NodeInputs(id), outputs |-> NodeOutputs(id)]

HostEdge(s, o, t, i) ==
  [id |-> getEdgeId(s, o, t, i), sourceNode |-> s, sourceOutput |-> o,
   targetNode |-> t, targetInput |-> i]

\* The edge configurations of the Dynamic example, and a self-connection.
EdgeConfigs ==
  { <<>>,
    <<HostEdge("n1", 0, "n2", 0)>>,
    <<HostEdge("n2", 0, "n3", 0)>>,
    <<HostEdge("n1", 0, "n2", 0), HostEdge("n2", 0, "n3", 0)>>,
    <<HostEdge("n1", 0, "n2", 0), HostEdge("n1", 1, "n3", 0)>>,
    <<HostEdge("n1", 0, "n1", 0), HostEdge("n1", 1, "n2", 0)>> }

InitNodeLists ==
  { <<HostNode("n1", 0), HostNode("n2", 0)>>,
    <<HostNode("n1", 0), HostNode("n2", 0), HostNode("n3", 0)>> }

NodeIdsOf(nodes) == {nodes[k].id : k \in 1 .. Len(nodes)}

\* ------------------------------------------------ convertToLayeredGraph
\* dagre.layout, left to right: a node with an incoming edge from another
\* node is placed one rank to the right; nodes are stacked in list order.
\* graph.setEdge is called for every edge of the list, so the source of such
\* an edge need not be a node of the list.
Layout(initialNodes, initialEdges) ==
  [k \in 1 .. Len(initialNodes) |->
    LET hasPred ==
          \E j \in 1 .. Len(initialEdges) :
            /\ initialEdges[j].targetNode = initialNodes[k].id
            /\ initialEdges[j].sourceNode # initialNodes[k].id
    IN Pos(IF hasPred THEN LayoutRankSep ELSE 0, LayoutNodeSep * (k - 1))]

EdgeIdsWhere(initialEdges, end, nodeId) ==
  LET kept == SelectSeq(initialEdges, LAMBDA edge : edge[end] = nodeId)
  IN [k \in 1 .. Len(kept) |-> kept[k].id]

InitNodesData(initialNodes, initialEdges) ==
  [k \in 1 .. Len(initialNodes) |->
    LET node == initialNodes[k]
    IN [id |-> node.id, data |-> node.content,
        inputs |-> node.inputs, outputs |-> node.outputs,
        edgesIn |-> EdgeIdsWhere(initialEdges, "targetNode", node.id),
        edgesOut |-> EdgeIdsWhere(initialEdges, "sourceNode", node.id)]]

\* Offset of the port with 0-based index `index` among `total` ports.
PortOffset(position, extraX, total, index) ==
  Pos(position.x + extraX,
      position.y + (index + 1) * PortSpacing - (total + 1) * PortHalfSpacing)

InitNodesOffsets(initialNodes) ==
  [k \in 1 .. Len(initialNodes) |->
    LET node == initialNodes[k]
    IN [inputs |-> [p \in 1 .. node.inputs |->
                      PortOffset(node.position, 0, node.inputs, p - 1)],
        outputs |-> [p \in 1 .. node.outputs |->
                      PortOffset(node.position, NodeWidth, node.outputs,
                                 p - 1)]]]

EdgeIdsOf(initialEdges) == {initialEdges[k].id : k \in 1 .. Len(initialEdges)}

\* reduce: a later edge with the same id overwrites an earlier one.
LastWithId(initialEdges, id) ==
  LET ks == {k \in 1 .. Len(initialEdges) : initialEdges[k].id = id}
  IN initialEdges[CHOOSE k \in ks : \A j \in ks : j <= k]

InitEdgesNodes(initialEdges) ==
  [id \in EdgeIdsOf(initialEdges) |->
    LET edge == LastWithId(initialEdges, id)
    IN [outNodeId |-> edge.sourceNode, outputIndex |-> edge.sourceOutput,
        inNodeId |-> edge.targetNode, inputIndex |-> edge.targetInput]]

\* initialNodes.find((node) => node.id === id): the node, when there is one.
HasNode(initialNodes, id) == id \in NodeIdsOf(initialNodes)

FindNode(initialNodes, id) ==
  initialNodes[CHOOSE k \in 1 .. Len(initialNodes) :
                 /\ initialNodes[k].id = id
                 /\ \A j \in 1 .. (k - 1) : initialNodes[j].id # id]

\* Mutant of InitEdgesPositions: an edge with a missing node gets an entry,
\* with (0, 0) for the position of the missing node.
InitEdgesPositionsWithFallback(initialNodes, initialEdges) ==
  [id \in EdgeIdsOf(initialEdges) |->
    LET edge == LastWithId(initialEdges, id)
        PositionOf(nodeId) ==
          IF HasNode(initialNodes, nodeId)
          THEN FindNode(initialNodes, nodeId).position
          ELSE Pos(0, 0)
    IN [x0 |-> PositionOf(edge.sourceNode).x + NodeWidth,
        y0 |-> PositionOf(edge.sourceNode).y - PortHalfSpacing,
        x1 |-> PositionOf(edge.targetNode).x,
        y1 |-> PositionOf(edge.targetNode).y - PortHalfSpacing]]

InitEdgesPositions(initialNodes, initialEdges) ==
  LET resolvable ==
        {id \in EdgeIdsOf(initialEdges) :
           \E k \in 1 .. Len(initialEdges) :
             /\ initialEdges[k].id = id
             /\ HasNode(initialNodes, initialEdges[k].sourceNode)
             /\ HasNode(initialNodes, initialEdges[k].targetNode)}
      lastResolvable(id) ==
        LET ks == {k \in 1 .. Len(initialEdges) :
                     /\ initialEdges[k].id = id
                     /\ HasNode(initialNodes, initialEdges[k].sourceNode)
                     /\ HasNode(initialNodes, initialEdges[k].targetNode)}
        IN initialEdges[CHOOSE k \in ks : \A j \in ks : j <= k]
  IN [id \in resolvable |->
       LET edge == lastResolvable(id)
           sourceNode == FindNode(initialNodes, edge.sourceNode)
           targetNode == FindNode(initialNodes, edge.targetNode)
       IN [x0 |-> sourceNode.position.x + NodeWidth,
           y0 |-> sourceNode.position.y - PortHalfSpacing,
           x1 |-> targetNode.position.x,
           y1 |-> targetNode.position.y - PortHalfSpacing]]

\* Mutant of InitEdgesActive: a new edge starts active.
InitEdgesActiveTrue(edge) == TRUE

\* acc[edge.id] = false
InitEdgesActive(edge) == FALSE

InitEdgesActives(initialEdges) ==
  [id \in EdgeIdsOf(initialEdges) |->
    InitEdgesActive(LastWithId(initialEdges, id))]

\* Object.keys(initEdgesActives): the ids in list order.
InitEdgesActivesKeys(initialEdges) ==
  [k \in 1 .. Len(initialEdges) |-> initialEdges[k].id]

convertToLayeredGraph(initialNodes, initialEdges) ==
  [initNodesPositions |-> Layout(initialNodes, initialEdges),
   initNodesData |-> InitNodesData(initialNodes, initialEdges),
   initNodesOffsets |-> InitNodesOffsets(initialNodes),
   initEdgesNodes |-> InitEdgesNodes(initialEdges),
   initEdgesPositions |-> InitEdgesPositions(initialNodes, initialEdges),
   initEdgesActives |-> InitEdgesActives(initialEdges),
   initEdgesActivesKeys |-> InitEdgesActivesKeys(initialEdges)]

\* ------------------------------------------------------------------- state
VARIABLES
  hostNodes,        \* props.nodes: the host's node list
  hostEdges,        \* props.edges: the host's edge list
  hostEdgesRef,     \* identity of the props.edges array
  prevEdgesRef,     \* identity of the edges array last reconciled
  nodesData,        \* store: per node id, data, port counts, edgesIn, edgesOut
  nodesPositions,   \* signal: per node position
  nodesOffsets,     \* store: per node port offsets
  edgesNodes,       \* signal: edge id -> endpoint record
  edgesPositions,   \* signal: edge id -> {x0, y0, x1, y1}
  edgesActives,     \* signal: edge id -> active flag
  edgesActivesKeys, \* key order of edgesActives
  clickedDelta,     \* signal: pointer offset recorded by onNodePress
  newEdge,          \* signal: the pending edge, or NoEdge for null
  calls,            \* notifications issued by the preceding handler that the
                    \* host has not applied yet
  last,             \* the preceding operation, its arguments and outcome
  pressed,          \* the node whose output the pending edge was pressed on,
                    \* and whether the engine has rebuilt since the press
  mounted,          \* ordinals of the nodes mounted since the last rebuild
  steps             \* number of operations so far

hostVars == <<hostNodes, hostEdges, hostEdgesRef>>

derivedVars ==
  <<nodesData, nodesPositions, nodesOffsets, edgesNodes, edgesPositions,
    edgesActives, edgesActivesKeys>>

vars ==
  <<hostNodes, hostEdges, hostEdgesRef, prevEdgesRef, nodesData,
    nodesPositions, nodesOffsets, edgesNodes, edgesPositions, edgesActives,
    edgesActivesKeys, clickedDelta, newEdge, calls, last, pressed,
    mounted, steps>>

NoEdge == [drawing |-> FALSE]

Drawing(position, sourceNode, sourceOutput) ==
  [drawing |-> TRUE, position |-> position, sourceNode |-> sourceNode,
   sourceOutput |-> sourceOutput]

\* No output is pressed.
NoPress == [id |-> "", rebuilt |-> FALSE]

\* What an operation leaves in `pressed` and `mounted`: onOutputMouseDown
\* records the id of the node at the ordinal it stores, a rebuild while the
\* edge is pending is noted, and the record ends with the pending edge;
\* onNodeMount adds its node to the mounted ones and a rebuild, after which
\* the renderer mounts the nodes anew, empties them.
Track ==
  /\ pressed' =
       IF last'.op = "onOutputMouseDown"
       THEN [id |-> At(nodesData', last'.nodeIndex).id, rebuilt |-> FALSE]
       ELSE IF ~newEdge'.drawing
       THEN NoPress
       ELSE IF last'.op = "hostUpdate" /\ last'.outcome = "rebuilt"
       THEN [pressed EXCEPT !.rebuilt = TRUE]
       ELSE pressed
  /\ mounted' =
       IF last'.op = "hostUpdate" /\ last'.outcome = "rebuilt"
       THEN {}
       ELSE IF last'.op = "onNodeMount"
       THEN mounted \cup {last'.nodeIndex}
       ELSE mounted

\* ------------------------------------------------------- operation records
\* The ids whose active flag is set.
ActiveSet(actives) == {id \in DOMAIN actives : actives[id]}

\* The edgesIn and edgesOut of every node, by ordinal.
Adjacency(data) ==
  [k \in 1 .. Len(data) |->
    [edgesIn |-> data[k].edgesIn, edgesOut |-> data[k].edgesOut]]

\* What an operation that adds an edge records of the state it started from.
Before(actives, data) ==
  [active |-> ActiveSet(actives), adjacency |-> Adjacency(data)]

NoBefore == [active |-> {}, adjacency |-> <<>>]

\* The id of the edge that `after` has at its end in addition to `before`,
\* or "" when `after` is not `before` with one edge appended.
AppendedEdge(before, after) ==
  IF /\ Len(after) = Len(before) + 1
     /\ SubSeq(after, 1, Len(before)) = before
     /\ after[Len(after)].id \notin {before[k].id : k \in 1 .. Len(before)}
  THEN after[Len(after)].id
  ELSE ""

\* ------------------------------------------------------------ construction
Init ==
  /\ hostNodes \in InitNodeLists
  /\ hostEdges \in EdgeConfigs
  /\ hostEdgesRef = 0
  /\ prevEdgesRef = hostEdgesRef
  /\ edgesNodes = InitEdgesNodes(hostEdges)
  /\ edgesPositions = InitEdgesPositions(hostNodes, hostEdges)
  /\ edgesActives = InitEdgesActives(hostEdges)
  /\ edgesActivesKeys = InitEdgesActivesKeys(hostEdges)
  /\ nodesPositions = Layout(hostNodes, hostEdges)
  /\ nodesData = InitNodesData(hostNodes, hostEdges)
  /\ nodesOffsets = InitNodesOffsets(hostNodes)
  /\ clickedDelta = Pos(0, 0)
  /\ newEdge = NoEdge
  /\ calls = <<>>
  /\ last = [op |-> "construct", outcome |-> "ok"]
  /\ pressed = NoPress
  /\ mounted = {}
  /\ steps = 0

\* ---------------------------------------------------------- reconciliation
\* Mutants of NeedsRebuild: the count alone; any change of the node list.
NeedsRebuildCountOnly(nextNodes, currentEdgesRef) ==
  Len(nextNodes) # Len(nodesData)

NeedsRebuildAnyChange(nextNodes, currentEdgesRef) ==
  \/ Len(nextNodes) # Len(nodesData)
  \/ currentEdgesRef # prevEdgesRef
  \/ nextNodes # hostNodes

\* Rebuild if node count changed OR edge array reference changed.
NeedsRebuild(nextNodes, currentEdgesRef) ==
  \/ Len(nextNodes) # Len(nodesData)
  \/ currentEdgesRef # prevEdgesRef

\* The effect, run on every change of props.nodes or props.edges.
Reconcile(nextNodes, currentEdges, currentEdgesRef) ==
  IF NeedsRebuild(nextNodes, currentEdgesRef)
  THEN /\ edgesNodes' = InitEdgesNodes(currentEdges)
       /\ edgesPositions' = InitEdgesPositions(nextNodes, currentEdges)
       /\ edgesActives' = InitEdgesActives(currentEdges)
       /\ edgesActivesKeys' = InitEdgesActivesKeys(currentEdges)
       /\ nodesPositions' = Layout(nextNodes, currentEdges)
       /\ nodesData' = InitNodesData(nextNodes, currentEdges)
       /\ nodesOffsets' = InitNodesOffsets(nextNodes)
       /\ prevEdgesRef' = currentEdgesRef
       /\ last' = [op |-> "hostUpdate", outcome |-> "rebuilt",
                   added |-> AppendedEdge(hostEdges, currentEdges),
                   before |-> IF AppendedEdge(hostEdges, currentEdges) = ""
                              THEN NoBefore
                              ELSE Before(edgesActives, nodesData)]
  ELSE /\ UNCHANGED derivedVars
       /\ UNCHANGED prevEdgesRef
       /\ last' = [op |-> "hostUpdate", outcome |-> "kept", added |-> "",
                   before |-> NoBefore]

Tick == steps < MaxSteps /\ steps' = steps + 1

\* A fresh array identity: the effect only remembers the last one.
FreshRef == 1 - hostEdgesRef

\* The host passes new props; the effect runs.
HostUpdate(newNodes, newEdges, newEdgesRef) ==
  /\ Tick
  /\ hostNodes' = newNodes
  /\ hostEdges' = newEdges
  /\ hostEdgesRef' = newEdgesRef
  /\ Reconcile(newNodes, newEdges, newEdgesRef)
  /\ UNCHANGED <<clickedDelta, newEdge>>
  /\ Track

\* setEdges([...newEdges]): a new array, also when its elements are the same.
HostSetEdges ==
  \E newEdges \in EdgeConfigs \cup {hostEdges} :
    /\ HostUpdate(hostNodes, newEdges, FreshRef)
    /\ calls' = <<>>

\* setNodes([...nodes(), newNode])
HostAddNode ==
  \E id \in NodeIds \ NodeIdsOf(hostNodes) :
    /\ HostUpdate(Append(hostNodes, HostNode(id, 0)), hostEdges, hostEdgesRef)
    /\ calls' = <<>>

\* The host replaces the payload of one node: same count, same edges array.
HostChangeContent ==
  \E k \in 1 .. Len(hostNodes) :
    /\ HostUpdate([hostNodes EXCEPT ![k].content = 1 - @], hostEdges,
                  hostEdgesRef)
    /\ calls' = <<>>

\* The host replaces one node by a node with another id: same count.
HostReplaceNode ==
  \E k \in 1 .. Len(hostNodes), id \in NodeIds \ NodeIdsOf(hostNodes) :
    /\ HostUpdate([hostNodes EXCEPT ![k] = HostNode(id, 0)], hostEdges,
                  hostEdgesRef)
    /\ calls' = <<>>

\* The host removes one node from its list and keeps its edge list.
HostRemoveNode ==
  \E k \in 1 .. Len(hostNodes) :
    /\ HostUpdate([j \in 1 .. (Len(hostNodes) - 1) |->
                     IF j < k THEN hostNodes[j] ELSE hostNodes[j + 1]],
                  hostEdges, hostEdgesRef)
    /\ calls' = <<>>

\* onNodesChange / onEdgesChange of the Dynamic example: the host stores the
\* reported list, which is a new array.
HostStore ==
  /\ calls # <<>>
  /\ IF Head(calls).cb = "onEdgesChange"
     THEN HostUpdate(hostNodes, Head(calls).edges, FreshRef)
     ELSE HostUpdate(Head(calls).nodes, hostEdges, hostEdgesRef)
  /\ calls' = Tail(calls)

\* ------------------------------------------------------------ node handlers
\* What the renderer measures for a node with `count` ports on one side.
MeasureVariants == {0, 3}

MeasuredPorts(count, x, variant) ==
  [p \in 1 .. count |-> Pos(x, 25 * p + variant)]

MountValues(nodeIndex, variant) ==
  [nodeIndex |-> nodeIndex,
   inputs |-> MeasuredPorts(At(nodesData, nodeIndex).inputs, 0, variant),
   outputs |-> MeasuredPorts(At(nodesData, nodeIndex).outputs, NodeWidth,
                             variant)]

SeqToSet(s) == {s[k] : k \in 1 .. Len(s)}

RECURSIVE PutKeys(_, _)
PutKeys(keys, ids) ==
  IF ids = <<>> THEN keys ELSE PutKeys(PutKey(keys, Head(ids)), Tail(ids))

\* Mutant of MountEdgesActives: the edges of edgesOut are not set active.
MountEdgesActivesInOnly(prev, node) ==
  [id \in (DOMAIN prev) \cup SeqToSet(node.edgesIn) |->
     IF id \in SeqToSet(node.edgesIn) THEN TRUE ELSE prev[id]]

\* setEdgesActives of handleOnNodeMount
MountEdgesActives(prev, node) ==
  [id \in (DOMAIN prev) \cup SeqToSet(node.edgesIn) \cup SeqToSet(node.edgesOut)
     |-> IF id \in SeqToSet(node.edgesIn) \cup SeqToSet(node.edgesOut)
         THEN TRUE ELSE prev[id]]

\* The entry written for an edge of edgesIn: the (x1, y1) end is at the node.
EdgeAtInput(prev, edgeId, position, inputOffset) ==
  [x0 |-> FieldOr0(prev, edgeId, "x0"), y0 |-> FieldOr0(prev, edgeId, "y0"),
   x1 |-> position.x + inputOffset.x, y1 |-> position.y + inputOffset.y]

\* The entry written for an edge of edgesOut: the (x0, y0) end is at the node.
EdgeAtOutput(prev, edgeId, position, outputOffset) ==
  [x0 |-> position.x + outputOffset.x, y0 |-> position.y + outputOffset.y,
   x1 |-> FieldOr0(prev, edgeId, "x1"), y1 |-> FieldOr0(prev, edgeId, "y1")]

\* The two map() passes over edgesIn and then edgesOut, both reading prev:
\* the write of the second pass is the one that stays.
PatchEdgesPositions(prev, inIds, outIds, position, inputs, outputs, enodes) ==
  [id \in (DOMAIN prev) \cup inIds \cup outIds |->
    IF id \in outIds
    THEN EdgeAtOutput(prev, id, position, At(outputs, enodes[id].outputIndex))
    ELSE IF id \in inIds
    THEN EdgeAtInput(prev, id, position, At(inputs, enodes[id].inputIndex))
    ELSE prev[id]]

\* setEdgesPositions of handleOnNodeMount
MountEdgesPositions(prev, node, position, values, enodes) ==
  PatchEdgesPositions(prev, SeqToSet(node.edgesIn), SeqToSet(node.edgesOut),
                      position, values.inputs, values.outputs, enodes)

handleOnNodeMount(values) ==
  LET node == At(nodesData, values.nodeIndex)
  IN /\ nodesOffsets' =
          [nodesOffsets EXCEPT ![values.nodeIndex + 1] =
             [inputs |-> values.inputs, outputs |-> values.outputs]]
     /\ edgesActives' = MountEdgesActives(edgesActives, node)
     /\ edgesActivesKeys' =
          PutKeys(PutKeys(edgesActivesKeys, node.edgesIn), node.edgesOut)
     /\ edgesPositions' =
          MountEdgesPositions(edgesPositions, node,
                              At(nodesPositions, values.nodeIndex), values,
                              edgesNodes)
     /\ UNCHANGED <<hostVars, prevEdgesRef, nodesData, nodesPositions,
                    edgesNodes, clickedDelta, newEdge>>
     /\ calls' = <<>>
     /\ last' = [op |-> "onNodeMount", nodeIndex |-> values.nodeIndex,
                 inputs |-> values.inputs, outputs |-> values.outputs,
                 outcome |-> "ok"]

NodeMount ==
  \E nodeIndex \in Ordinals(nodesData), variant \in MeasureVariants :
    Tick /\ handleOnNodeMount(MountValues(nodeIndex, variant)) /\ Track

\* Pointer offsets and pointer coordinates the renderer reports.
PressDeltas == {Pos(0, 0), Pos(5, 5)}

PointerPoints == {Pos(10, 10), Pos(300, 40)}

handleOnNodePress(deltaX, deltaY) ==
  /\ clickedDelta' = Pos(deltaX, deltaY)
  /\ UNCHANGED <<hostVars, prevEdgesRef, derivedVars, newEdge>>
  /\ calls' = <<>>
  /\ last' = [op |-> "onNodePress", outcome |-> "ok"]

NodePress ==
  \E delta \in PressDeltas : Tick /\ handleOnNodePress(delta.x, delta.y) /\ Track

\* Mutant of MoveNodesPositions: the node is moved by the pointer coordinates
\* instead of to them.
MoveNodesPositionsRelative(prev, nodeIndex, x, y, delta) ==
  [prev EXCEPT ![nodeIndex + 1] =
     Pos(@.x + x - delta.x, @.y + y - delta.y)]

\* setNodesPositions of handleOnNodeMove
MoveNodesPositions(prev, nodeIndex, x, y, delta) ==
  [prev EXCEPT ![nodeIndex + 1] = Pos(x - delta.x, y - delta.y)]

ActiveIds(ids, actives) ==
  {id \in SeqToSet(ids) : id \in DOMAIN actives /\ actives[id]}

\* setEdgesPositions of handleOnNodeMove: only active edges are written.
MoveEdgesPositions(prev, nodeIndex, x, y, delta, data, offsets, enodes, actives) ==
  PatchEdgesPositions(prev,
                      ActiveIds(At(data, nodeIndex).edgesIn, actives),
                      ActiveIds(At(data, nodeIndex).edgesOut, actives),
                      Pos(x - delta.x, y - delta.y),
                      At(offsets, nodeIndex).inputs,
                      At(offsets, nodeIndex).outputs, enodes)

handleOnNodeMove(nodeIndex, x, y) ==
  /\ nodesPositions' =
       MoveNodesPositions(nodesPositions, nodeIndex, x, y, clickedDelta)
  /\ edgesPositions' =
       MoveEdgesPositions(edgesPositions, nodeIndex, x, y, clickedDelta,
                          nodesData, nodesOffsets, edgesNodes, edgesActives)
  /\ UNCHANGED <<hostVars, prevEdgesRef, nodesData, nodesOffsets, edgesNodes,
                 edgesActives, edgesActivesKeys, clickedDelta, newEdge>>
  /\ calls' = <<>>
  /\ last' = [op |-> "onNodeMove", nodeIndex |-> nodeIndex, x |-> x, y |-> y,
              repeated |-> last = [op |-> "onNodeMove",
                                   nodeIndex |-> nodeIndex, x |-> x, y |-> y,
                                   repeated |-> FALSE, outcome |-> "ok"],
              outcome |-> "ok"]

NodeMove ==
  \E nodeIndex \in Ordinals(nodesData), p \in PointerPoints :
    Tick /\ handleOnNodeMove(nodeIndex, p.x, p.y) /\ Track

\* Mutant of NodeDeleteCalls: the nodes are reported before the edges.
NodeDeleteCallsNodesFirst(nodeId) ==
  LET newNodes == SelectSeq(hostNodes, LAMBDA node : node.id # nodeId)
      newEdges == SelectSeq(hostEdges,
                         LAMBDA edge : /\ edge.sourceNode # nodeId
                                       /\ edge.targetNode # nodeId)
  IN << [cb |-> "onNodesChange", nodes |-> newNodes],
        [cb |-> "onEdgesChange", edges |-> newEdges] >>

\* The two notifications of handleOnNodeDelete, in the order of the calls.
NodeDeleteCalls(nodeId) ==
  LET newNodes == SelectSeq(hostNodes, LAMBDA node : node.id # nodeId)
      newEdges == SelectSeq(hostEdges,
                         LAMBDA edge : /\ edge.sourceNode # nodeId
                                       /\ edge.targetNode # nodeId)
  IN << [cb |-> "onEdgesChange", edges |-> newEdges],
        [cb |-> "onNodesChange", nodes |-> newNodes] >>

handleOnNodeDelete(nodeId) ==
  /\ calls' = NodeDeleteCalls(nodeId)
  /\ UNCHANGED <<hostVars, prevEdgesRef, derivedVars, clickedDelta, newEdge>>
  /\ last' = [op |-> "onNodeDelete", nodeId |-> nodeId, outcome |-> "ok"]

\* The renderer passes the id of a node it shows.
NodeDelete ==
  \E nodeIndex \in Ordinals(nodesData) :
    Tick /\ handleOnNodeDelete(At(nodesData, nodeIndex).id) /\ Track

\* ------------------------------------------------------------ edge drawing
handleOnOutputMouseDown(nodeIndex, outputIndex) ==
  LET nodePosition == At(nodesPositions, nodeIndex)
      outputOffset == At(At(nodesOffsets, nodeIndex).outputs, outputIndex)
  IN /\ newEdge' =
          Drawing([x0 |-> nodePosition.x + outputOffset.x,
                   y0 |-> nodePosition.y + outputOffset.y,
                   x1 |-> nodePosition.x + outputOffset.x,
                   y1 |-> nodePosition.y + outputOffset.y],
                  nodeIndex, outputIndex)
     /\ UNCHANGED <<hostVars, prevEdgesRef, derivedVars, clickedDelta>>
     /\ calls' = <<>>
     /\ last' = [op |-> "onOutputMouseDown", nodeIndex |-> nodeIndex,
                 outputIndex |-> outputIndex, outcome |-> "ok"]

OutputMouseDown ==
  \E nodeIndex \in Ordinals(nodesData) :
    \E outputIndex \in 0 .. (At(nodesData, nodeIndex).outputs - 1) :
      Tick /\ handleOnOutputMouseDown(nodeIndex, outputIndex) /\ Track

\* Mutant of ActiveEdges: the active flag is not looked at.
ActiveEdgesAllKeys(keys, actives, allEdgesNodes) ==
  LET kept == SelectSeq(keys, LAMBDA key : key \in DOMAIN allEdgesNodes)
  IN [k \in 1 .. Len(kept) |->
       [id |-> kept[k],
        sourceNode |-> allEdgesNodes[kept[k]].outNodeId,
        sourceOutput |-> allEdgesNodes[kept[k]].outputIndex,
        targetNode |-> allEdgesNodes[kept[k]].inNodeId,
        targetInput |-> allEdgesNodes[kept[k]].inputIndex]]

\* The list passed to props.onEdgesChange: the keys of edgesActives in
\* order, those whose flag is set and that have an endpoint record.
ActiveEdges(keys, actives, allEdgesNodes) ==
  LET kept == SelectSeq(keys, LAMBDA key : actives[key]
                                        /\ key \in DOMAIN allEdgesNodes)
  IN [k \in 1 .. Len(kept) |->
       [id |-> kept[k],
        sourceNode |-> allEdgesNodes[kept[k]].outNodeId,
        sourceOutput |-> allEdgesNodes[kept[k]].outputIndex,
        targetNode |-> allEdgesNodes[kept[k]].inNodeId,
        targetInput |-> allEdgesNodes[kept[k]].inputIndex]]

\* Mutant of HaveEdge: the adjacency lists are not looked at.
HaveEdgeNever(outputEdges, inputEdges, edgeId) == FALSE

\* haveEdge of handleOnInputMouseUp
HaveEdge(outputEdges, inputEdges, edgeId) ==
  Includes(outputEdges, edgeId) \/ Includes(inputEdges, edgeId)

\* Mutant of PushEdge: the id is not pushed to the target's edgesIn.
PushEdgeOutOnly(data, sourceNode, nodeIndex, edgeId) ==
  [data EXCEPT ![sourceNode + 1].edgesOut = Append(@, edgeId)]

\* nodesData after the two push() calls of handleOnInputMouseUp
PushEdge(data, sourceNode, nodeIndex, edgeId) ==
  LET pushedOut ==
        [data EXCEPT ![sourceNode + 1].edgesOut = Append(@, edgeId)]
  IN [pushedOut EXCEPT ![nodeIndex + 1].edgesIn = Append(@, edgeId)]

\* The position entry of a new edge.
NewEdgePosition(sourceNode, sourceOutput, nodeIndex, inputIndex) ==
  LET sourcePosition == At(nodesPositions, sourceNode)
      sourceOffset == At(At(nodesOffsets, sourceNode).outputs, sourceOutput)
      targetPosition == At(nodesPositions, nodeIndex)
      targetOffset == At(At(nodesOffsets, nodeIndex).inputs, inputIndex)
  IN [x0 |-> sourcePosition.x + sourceOffset.x,
      y0 |-> sourcePosition.y + sourceOffset.y,
      x1 |-> targetPosition.x + targetOffset.x,
      y1 |-> targetPosition.y + targetOffset.y]

\* A handler that returns, or raises, before it has written anything.
NothingWritten ==
  /\ UNCHANGED <<hostVars, prevEdgesRef, derivedVars, clickedDelta, newEdge>>
  /\ calls' = <<>>

InputMouseUpDid(nodeIndex, inputIndex, outcome) ==
  [op |-> "onInputMouseUp", nodeIndex |-> nodeIndex,
   inputIndex |-> inputIndex, outcome |-> outcome]

\* Mutant of IsSelfConnection: the source node is not compared.
IsSelfConnectionNever(nodeIndex) == FALSE

\* nodeIndex === newEdge()?.sourceNode
IsSelfConnection(nodeIndex) ==
  newEdge.drawing /\ newEdge.sourceNode = nodeIndex

handleOnInputMouseUp(nodeIndex, inputIndex) ==
  \* newEdge()?.sourceNode || 0, newEdge()?.sourceOutput || 0
  LET sourceNode == IF newEdge.drawing THEN newEdge.sourceNode ELSE 0
      sourceOutput == IF newEdge.drawing THEN newEdge.sourceOutput ELSE 0
  IN IF IsSelfConnection(nodeIndex)
     THEN /\ newEdge' = NoEdge
          /\ UNCHANGED <<hostVars, prevEdgesRef, derivedVars, clickedDelta>>
          /\ calls' = <<>>
          /\ last' = InputMouseUpDid(nodeIndex, inputIndex, "self")
     ELSE IF sourceNode \notin Ordinals(nodesData)
     THEN \* nodesData[...] is undefined: reading .edgesOut raises
          /\ NothingWritten
          /\ last' = InputMouseUpDid(nodeIndex, inputIndex, "raised")
     ELSE IF ~newEdge.drawing
     THEN /\ NothingWritten
          /\ last' = InputMouseUpDid(nodeIndex, inputIndex, "idle")
     ELSE
       LET outputEdges == At(nodesData, sourceNode).edgesOut
           inputEdges == At(nodesData, nodeIndex).edgesIn
           sourceNodeId == At(nodesData, sourceNode).id
           targetNodeId == At(nodesData, nodeIndex).id
           edgeId == getEdgeId(sourceNodeId, sourceOutput, targetNodeId,
                               inputIndex)
           newEdgeNode ==
             [outNodeId |-> sourceNodeId, outputIndex |-> sourceOutput,
              inNodeId |-> targetNodeId, inputIndex |-> inputIndex]
       IN IF /\ ~HaveEdge(outputEdges, inputEdges, edgeId)
             /\ sourceOutput \notin
                  Ordinals(At(nodesOffsets, sourceNode).outputs)
          THEN \* outputs[...] is undefined: reading .offset raises
               /\ NothingWritten
               /\ last' = InputMouseUpDid(nodeIndex, inputIndex, "raised")
          ELSE IF ~HaveEdge(outputEdges, inputEdges, edgeId)
          THEN /\ edgesPositions' =
                    Put(edgesPositions, edgeId,
                        NewEdgePosition(sourceNode, sourceOutput, nodeIndex,
                                        inputIndex))
               /\ edgesActives' = Put(edgesActives, edgeId, TRUE)
               /\ edgesActivesKeys' = PutKey(edgesActivesKeys, edgeId)
               /\ edgesNodes' = Put(edgesNodes, edgeId, newEdgeNode)
               /\ nodesData' = PushEdge(nodesData, sourceNode, nodeIndex,
                                        edgeId)
               /\ calls' =
                    << [cb |-> "onEdgesChange",
                        edges |-> ActiveEdges(edgesActivesKeys',
                                              edgesActives',
                                              Put(edgesNodes', edgeId,
                                                  newEdgeNode))] >>
               /\ newEdge' = NoEdge
               /\ UNCHANGED <<hostVars, prevEdgesRef, nodesPositions,
                              nodesOffsets, clickedDelta>>
               /\ last' = [op |-> "onInputMouseUp", nodeIndex |-> nodeIndex,
                           inputIndex |-> inputIndex, outcome |-> "created",
                           added |-> edgeId,
                           before |-> Before(edgesActives, nodesData)]
          ELSE /\ newEdge' = NoEdge
               /\ UNCHANGED <<hostVars, prevEdgesRef, derivedVars,
                              clickedDelta>>
               /\ calls' = <<>>
               /\ last' = InputMouseUpDid(nodeIndex, inputIndex, "haveEdge")

InputMouseUp ==
  \E nodeIndex \in Ordinals(nodesData) :
    \E inputIndex \in 0 .. (At(nodesData, nodeIndex).inputs - 1) :
      Tick /\ handleOnInputMouseUp(nodeIndex, inputIndex) /\ Track

handleOnMouseUp ==
  /\ newEdge' = NoEdge
  /\ UNCHANGED <<hostVars, prevEdgesRef, derivedVars, clickedDelta>>
  /\ calls' = <<>>
  /\ last' = [op |-> "onMouseUp", outcome |-> "ok"]

MouseUp == Tick /\ handleOnMouseUp /\ Track

\* Mutant of MovedEdge: the whole pending edge follows the pointer.
MovedEdgeBothEnds(prev, x, y) ==
  IF prev.drawing
  THEN Drawing([x0 |-> x, y0 |-> y, x1 |-> x, y1 |-> y],
               prev.sourceNode, prev.sourceOutput)
  ELSE prev

\* The value handleOnMouseMove leaves in newEdge.
MovedEdge(prev, x, y) ==
  IF prev.drawing
  THEN Drawing([x0 |-> prev.position.x0, y0 |-> prev.position.y0,
                x1 |-> x, y1 |-> y],
               prev.sourceNode, prev.sourceOutput)
  ELSE prev

handleOnMouseMove(x, y) ==
  /\ newEdge' = MovedEdge(newEdge, x, y)
  /\ UNCHANGED <<hostVars, prevEdgesRef, derivedVars, clickedDelta>>
  /\ calls' = <<>>
  /\ last' = [op |-> "onMouseMove", x |-> x, y |-> y, outcome |-> "ok"]

MouseMove ==
  \E p \in PointerPoints : Tick /\ handleOnMouseMove(p.x, p.y) /\ Track

\* ------------------------------------------------------------ edge handlers
\* nodesData.findIndex((node) => node.id === id), -1 when there is none
FindIndex(data, id) ==
  IF \E k \in 1 .. Len(data) : data[k].id = id
  THEN (CHOOSE k \in 1 .. Len(data) :
          /\ data[k].id = id
          /\ \A j \in 1 .. (k - 1) : data[j].id # id) - 1
  ELSE -1

WithoutEdge(ids, edgeId) == SelectSeq(ids, LAMBDA elem : elem # edgeId)

\* Mutant of RemoveEdgeIn: the target's edgesIn is left as it is.
RemoveEdgeInKeeps(data, nodeTargetIndex, edgeId) == data

RemoveEdgeIn(data, nodeTargetIndex, edgeId) ==
  [data EXCEPT ![nodeTargetIndex + 1].edgesIn = WithoutEdge(@, edgeId)]

\* Mutant of RemoveEdgeOut: the source's edgesOut is left as it is.
RemoveEdgeOutKeeps(data, nodeSourceIndex, edgeId) == data

RemoveEdgeOut(data, nodeSourceIndex, edgeId) ==
  [data EXCEPT ![nodeSourceIndex + 1].edgesOut = WithoutEdge(@, edgeId)]

handleOnDeleteEdge(edgeId) ==
  LET nodeSourceIndex == FindIndex(nodesData, edgesNodes[edgeId].outNodeId)
      nodeTargetIndex == FindIndex(nodesData, edgesNodes[edgeId].inNodeId)
  IN IF nodeTargetIndex = -1
     THEN \* nodesData[-1] is undefined: reading .edgesIn raises
          /\ NothingWritten
          /\ last' = [op |-> "onDeleteEdge", edgeId |-> edgeId,
                      outcome |-> "raised"]
     ELSE IF nodeSourceIndex = -1
     THEN \* edgesIn of the target is written, then .edgesOut raises
          /\ nodesData' = RemoveEdgeIn(nodesData, nodeTargetIndex, edgeId)
          /\ UNCHANGED <<hostVars, prevEdgesRef, nodesPositions, nodesOffsets,
                         edgesNodes, edgesPositions, edgesActives,
                         edgesActivesKeys, clickedDelta, newEdge>>
          /\ calls' = <<>>
          /\ last' = [op |-> "onDeleteEdge", edgeId |-> edgeId,
                      outcome |-> "raised"]
     ELSE /\ nodesData' =
               RemoveEdgeOut(RemoveEdgeIn(nodesData, nodeTargetIndex, edgeId),
                             nodeSourceIndex, edgeId)
          /\ edgesActives' = Put(edgesActives, edgeId, FALSE)
          /\ edgesActivesKeys' = PutKey(edgesActivesKeys, edgeId)
          /\ calls' =
               << [cb |-> "onEdgesChange",
                   edges |-> ActiveEdges(edgesActivesKeys', edgesActives',
                                         edgesNodes)] >>
          /\ UNCHANGED <<hostVars, prevEdgesRef, nodesPositions, nodesOffsets,
                         edgesNodes, edgesPositions, clickedDelta, newEdge>>
          /\ last' = [op |-> "onDeleteEdge", edgeId |-> edgeId,
                      outcome |-> "ok"]

\* The renderer offers the edges it draws: those with a position entry and
\* the active flag set.
DeleteEdge ==
  \E edgeId \in DOMAIN edgesPositions :
    /\ edgeId \in DOMAIN edgesActives
    /\ edgesActives[edgeId]
    /\ Tick
    /\ handleOnDeleteEdge(edgeId)
    /\ Track

\* ------------------------------------------------------------ specification
Next ==
  \/ HostSetEdges
  \/ HostAddNode
  \/ HostChangeContent
  \/ HostReplaceNode
  \/ HostRemoveNode
  \/ HostStore
  \/ NodeMount
  \/ NodePress
  \/ NodeMove
  \/ NodeDelete
  \/ OutputMouseDown
  \/ InputMouseUp
  \/ MouseUp
  \/ MouseMove
  \/ DeleteEdge

Spec == Init /\ [][Next]_vars

\* The state after construction and the first mount of the nodes with
\* ordinals 0 .. k - 1, in that order, as the renderer mounts them.
RECURSIVE MountedThrough(_, _, _)
MountedThrough(nodes, edges, k) ==
  IF k = 0
  THEN [actives |-> InitEdgesActives(edges),
        keys |-> InitEdgesActivesKeys(edges),
        positions |-> InitEdgesPositions(nodes, edges)]
  ELSE LET prev == MountedThrough(nodes, edges, k - 1)
           node == InitNodesData(nodes, edges)[k]
           values ==
             [nodeIndex |-> k - 1,
              inputs |-> MeasuredPorts(node.inputs, 0, 0),
              outputs |-> MeasuredPorts(node.outputs, NodeWidth, 0)]
       IN [actives |-> MountEdgesActives(prev.actives, node),
           keys |-> PutKeys(PutKeys(prev.keys, node.edgesIn), node.edgesOut),
           positions |->
             MountEdgesPositions(prev.positions, node,
                                 Layout(nodes, edges)[k], values,
                                 InitEdgesNodes(edges))]

InitMounted ==
  /\ hostNodes \in InitNodeLists
  /\ hostEdges \in EdgeConfigs
  /\ hostEdgesRef = 0
  /\ prevEdgesRef = hostEdgesRef
  /\ edgesNodes = InitEdgesNodes(hostEdges)
  /\ nodesPositions = Layout(hostNodes, hostEdges)
  /\ nodesData = InitNodesData(hostNodes, hostEdges)
  /\ nodesOffsets =
       [k \in 1 .. Len(hostNodes) |->
         [inputs |-> MeasuredPorts(hostNodes[k].inputs, 0, 0),
          outputs |-> MeasuredPorts(hostNodes[k].outputs, NodeWidth, 0)]]
  /\ LET built == MountedThrough(hostNodes, hostEdges, Len(hostNodes))
     IN /\ edgesActives = built.actives
        /\ edgesActivesKeys = built.keys
        /\ edgesPositions = built.positions
  /\ clickedDelta = Pos(0, 0)
  /\ newEdge = NoEdge
  /\ calls = <<>>
  /\ last = [op |-> "onNodeMount", nodeIndex |-> Len(hostNodes) - 1,
             inputs |-> MeasuredPorts(hostNodes[Len(hostNodes)].inputs, 0, 0),
             outputs |-> MeasuredPorts(hostNodes[Len(hostNodes)].outputs,
                                       NodeWidth, 0),
             outcome |-> "ok"]
  /\ pressed = NoPress
  /\ mounted = Ordinals(hostNodes)
  /\ steps = 0

\* The engine from the point where every node has been mounted once.
SpecMounted == InitMounted /\ [][Next]_vars

\* ------------------------------------- handleOnInputMouseUp, write by write
\* The creation branch of handleOnInputMouseUp one setter call at a time.
\* No other handler runs between the writes: the runtime delivers one event
\* at a time.

\* Mutant of CreationOrder: setNodesData is called first.
CreationOrderDataFirst ==
  <<"nodesData", "edgesPositions", "edgesActives", "edgesNodes">>

\* The setter calls of the creation branch, in the order of the source.
CreationOrder ==
  <<"edgesPositions", "edgesActives", "edgesNodes", "nodesData">>

\* No handler is between two of its writes.
Quiet == last.outcome # "writing"

\* The checks before the first write: an edge is pending from another node,
\* it is not in the adjacency lists, and nothing raises.
ReachesCreation(nodeIndex, inputIndex) ==
  /\ newEdge.drawing
  /\ ~IsSelfConnection(nodeIndex)
  /\ newEdge.sourceNode \in Ordinals(nodesData)
  /\ newEdge.sourceOutput \in
       Ordinals(At(nodesOffsets, newEdge.sourceNode).outputs)
  /\ ~HaveEdge(At(nodesData, newEdge.sourceNode).edgesOut,
               At(nodesData, nodeIndex).edgesIn,
               getEdgeId(At(nodesData, newEdge.sourceNode).id,
                         newEdge.sourceOutput, At(nodesData, nodeIndex).id,
                         inputIndex))

\* newEdgeNode of the handler that is at nodeIndex, inputIndex.
NewEdgeNode(nodeIndex, inputIndex) ==
  [outNodeId |-> At(nodesData, newEdge.sourceNode).id,
   outputIndex |-> newEdge.sourceOutput,
   inNodeId |-> At(nodesData, nodeIndex).id,
   inputIndex |-> inputIndex]

\* The handler has passed its checks and is before its first write.
InputMouseUpStart ==
  \E nodeIndex \in Ordinals(nodesData) :
    \E inputIndex \in 0 .. (At(nodesData, nodeIndex).inputs - 1) :
      /\ Quiet
      /\ Tick
      /\ ReachesCreation(nodeIndex, inputIndex)
      /\ NothingWritten
      /\ last' = [op |-> "onInputMouseUp", nodeIndex |-> nodeIndex,
                  inputIndex |-> inputIndex, outcome |-> "writing",
                  written |-> 0,
                  added |-> getEdgeId(At(nodesData, newEdge.sourceNode).id,
                                      newEdge.sourceOutput,
                                      At(nodesData, nodeIndex).id, inputIndex),
                  before |-> Before(edgesActives, nodesData)]
      /\ Track

\* The next setter call of the handler.
InputMouseUpWrite ==
  /\ ~Quiet
  /\ last.written < Len(CreationOrder)
  /\ LET target == CreationOrder[last.written + 1]
         edgeId == last.added
     IN /\ edgesPositions' =
             IF target = "edgesPositions"
             THEN Put(edgesPositions, edgeId,
                      NewEdgePosition(newEdge.sourceNode, newEdge.sourceOutput,
                                      last.nodeIndex, last.inputIndex))
             ELSE edgesPositions
        /\ edgesActives' =
             IF target = "edgesActives"
             THEN Put(edgesActives, edgeId, TRUE) ELSE edgesActives
        /\ edgesActivesKeys' =
             IF target = "edgesActives"
             THEN PutKey(edgesActivesKeys, edgeId) ELSE edgesActivesKeys
        /\ edgesNodes' =
             IF target = "edgesNodes"
             THEN Put(edgesNodes, edgeId,
                      NewEdgeNode(last.nodeIndex, last.inputIndex))
             ELSE edgesNodes
        /\ nodesData' =
             IF target = "nodesData"
             THEN PushEdge(nodesData, newEdge.sourceNode, last.nodeIndex,
                           edgeId)
             ELSE nodesData
  /\ UNCHANGED <<hostVars, prevEdgesRef, nodesPositions, nodesOffsets,
                 clickedDelta, newEdge, calls, steps>>
  /\ last' = [last EXCEPT !.written = @ + 1]
  /\ Track

\* The report to the host and setNewEdge(null), after the last write.
InputMouseUpFinish ==
  /\ ~Quiet
  /\ last.written = Len(CreationOrder)
  /\ calls' =
       << [cb |-> "onEdgesChange",
           edges |-> ActiveEdges(edgesActivesKeys, edgesActives,
                                 Put(edgesNodes, last.added,
                                     NewEdgeNode(last.nodeIndex,
                                                 last.inputIndex)))] >>
  /\ newEdge' = NoEdge
  /\ UNCHANGED <<hostVars, prevEdgesRef, derivedVars, clickedDelta, steps>>
  /\ last' = [op |-> "onInputMouseUp", nodeIndex |-> last.nodeIndex,
              inputIndex |-> last.inputIndex, outcome |-> "created",
              added |-> last.added, before |-> last.before]
  /\ Track

NextSteps ==
  \/ Quiet /\ Next
  \/ InputMouseUpStart
  \/ InputMouseUpWrite
  \/ InputMouseUpFinish

\* The engine with the creation branch of handleOnInputMouseUp in steps.
SpecSteps == Init /\ [][NextSteps]_vars

\* ---------------------------------------------------- getEdgeId on its own
\* Node ids the host may choose, some with the separators of the id format.
EdgeIdNodeIds == {"a", "b", "a:0_a", "a_b"}

EdgeIdPorts == {0, 1}

EdgeIdInputs == EdgeIdNodeIds \X EdgeIdPorts \X EdgeIdNodeIds \X EdgeIdPorts

\* An engine constructed with no nodes and no edges.
InitEdgeId ==
  /\ hostNodes = <<>>
  /\ hostEdges = <<>>
  /\ hostEdgesRef = 0
  /\ prevEdgesRef = hostEdgesRef
  /\ edgesNodes = InitEdgesNodes(hostEdges)
  /\ edgesPositions = InitEdgesPositions(hostNodes, hostEdges)
  /\ edgesActives = InitEdgesActives(hostEdges)
  /\ edgesActivesKeys = InitEdgesActivesKeys(hostEdges)
  /\ nodesPositions = Layout(hostNodes, hostEdges)
  /\ nodesData = InitNodesData(hostNodes, hostEdges)
  /\ nodesOffsets = InitNodesOffsets(hostNodes)
  /\ clickedDelta = Pos(0, 0)
  /\ newEdge = NoEdge
  /\ calls = <<>>
  /\ last = [op |-> "construct", outcome |-> "ok"]
  /\ pressed = NoPress
  /\ mounted = {}
  /\ steps = 0

\* getEdgeId is called for two endpoint tuples.
GetEdgeIds ==
  \E first \in EdgeIdInputs, second \in EdgeIdInputs :
    /\ last.op = "construct"
    /\ last' = [op |-> "getEdgeId", first |-> first, second |-> second,
                firstId |-> getEdgeId(first[1], first[2], first[3], first[4]),
                secondId |-> getEdgeId(second[1], second[2], second[3],
                                       second[4]),
                outcome |-> "ok"]
    /\ UNCHANGED <<hostVars, prevEdgesRef, derivedVars, clickedDelta, newEdge,
                   calls, pressed, mounted, steps>>

NextEdgeId == GetEdgeIds

SpecEdgeId == InitEdgeId /\ [][NextEdgeId]_vars

\* ------------------------------------------------------------------ claims
\* The derived state is the snapshot built from the given lists.
IsSnapshotOf(nodes, edges, data, positions, offsets, enodes, epositions, actives, keys) ==
  /\ data = InitNodesData(nodes, edges)
  /\ positions = Layout(nodes, edges)
  /\ offsets = InitNodesOffsets(nodes)
  /\ enodes = InitEdgesNodes(edges)
  /\ epositions = InitEdgesPositions(nodes, edges)
  /\ actives = InitEdgesActives(edges)
  /\ keys = InitEdgesActivesKeys(edges)

\* C1: a host update rebuilds the derived state if and only if the host's
\* node count differs from the engine's node count or the edges array is not
\* the one last reconciled; a new edges array always rebuilds, also with an
\* unchanged node count and equal elements; without a rebuild the derived
\* state is kept.
C1_RebuildIffCountOrEdgesRefChanged ==
  [][last'.op = "hostUpdate" =>
       /\ (last'.outcome = "rebuilt") <=>
            (\/ Len(hostNodes') # Len(nodesData)
             \/ hostEdgesRef' # prevEdgesRef)
       /\ hostEdgesRef' # hostEdgesRef => last'.outcome = "rebuilt"
       /\ IF last'.outcome = "rebuilt"
          THEN /\ IsSnapshotOf(hostNodes', hostEdges', nodesData',
                               nodesPositions', nodesOffsets', edgesNodes',
                               edgesPositions', edgesActives',
                               edgesActivesKeys')
               /\ prevEdgesRef' = hostEdgesRef'
          ELSE UNCHANGED <<derivedVars, prevEdgesRef>>]_vars

\* The first operation passed a new edges array with the node count of
\* construction, and the engine rebuilt.
C1_Witness ==
  /\ last.op = "hostUpdate"
  /\ last.outcome = "rebuilt"
  /\ hostEdgesRef = 1
  /\ Len(hostNodes) = 3
  /\ hostEdges = <<HostEdge("n1", 0, "n2", 0)>>
  /\ steps = 1

\* Only the payload of nodes differs between the two node lists.
OnlyContentChanged(before, after) ==
  /\ Len(after) = Len(before)
  /\ after # before
  /\ \A k \in 1 .. Len(before) :
       after[k] = [before[k] EXCEPT !.content = after[k].content]

\* C2: a host update with the same node count and the same edges array, in
\* which only node payloads changed, leaves node positions, port offsets,
\* edge endpoint entries, active flags and the pending edge unchanged.
C2_ContentOnlyUpdateKeepsGeometry ==
  [][(/\ last'.op = "hostUpdate"
      /\ hostEdgesRef' = hostEdgesRef
      /\ OnlyContentChanged(hostNodes, hostNodes')) =>
       UNCHANGED <<nodesPositions, nodesOffsets, edgesPositions, edgesActives,
                   newEdge>>]_vars

\* After a mount and a drag, a payload-only update has kept the engine state.
C2_Witness ==
  /\ last.op = "hostUpdate"
  /\ last.outcome = "kept"
  /\ \E k \in 1 .. Len(hostNodes) : hostNodes[k].content = 1
  /\ \A k \in 1 .. Len(hostNodes) : hostNodes[k].id = nodesData[k].id
  /\ \E id \in DOMAIN edgesActives : edgesActives[id]
  /\ nodesPositions # Layout(hostNodes, hostEdges)
  /\ nodesOffsets # InitNodesOffsets(hostNodes)

\* The edges of a host state that reference a node absent from its node list.
Dangling(nodes, edges) ==
  {edges[k] : k \in {j \in 1 .. Len(edges) :
                       \/ ~HasNode(nodes, edges[j].sourceNode)
                       \/ ~HasNode(nodes, edges[j].targetNode)}}

\* What a host that stores each reported list holds after a notification.
HeldAfter(held, call) ==
  IF call.cb = "onEdgesChange"
  THEN [nodes |-> held.nodes, edges |-> call.edges]
  ELSE [nodes |-> call.nodes, edges |-> held.edges]

\* C3: onNodeDelete(A) reports the host's edges without those that touch A,
\* then the host's nodes without A; a host that stores the lists as they
\* arrive holds, after the first and after the second notification, no edge
\* referencing an absent node that it did not hold before.
C3_DeleteReportsEdgesBeforeNodes ==
  [][last'.op = "onNodeDelete" =>
       LET A == last'.nodeId
           held0 == [nodes |-> hostNodes, edges |-> hostEdges]
           held1 == HeldAfter(held0, calls'[1])
           held2 == HeldAfter(held1, calls'[2])
       IN /\ Len(calls') = 2
          /\ calls'[1].cb = "onEdgesChange"
          /\ calls'[2].cb = "onNodesChange"
          /\ \A k \in 1 .. Len(calls'[1].edges) :
               /\ calls'[1].edges[k].sourceNode # A
               /\ calls'[1].edges[k].targetNode # A
          /\ SeqToSet(calls'[1].edges) =
               {e \in SeqToSet(hostEdges) :
                  e.sourceNode # A /\ e.targetNode # A}
          /\ \A k \in 1 .. Len(calls'[2].nodes) : calls'[2].nodes[k].id # A
          /\ SeqToSet(calls'[2].nodes) =
               {n \in SeqToSet(hostNodes) : n.id # A}
          /\ Dangling(held1.nodes, held1.edges)
               \subseteq Dangling(hostNodes, hostEdges)
          /\ Dangling(held2.nodes, held2.edges)
               \subseteq Dangling(hostNodes, hostEdges)]_vars

\* A node with incident edges was deleted: the reported edge list is shorter
\* than the host's.
C3_Witness ==
  /\ last.op = "onNodeDelete"
  /\ Len(calls) = 2
  /\ HasNode(hostNodes, last.nodeId)
  /\ Len(calls[1].edges) < Len(hostEdges)
  /\ Len(calls[2].nodes) < Len(hostNodes)

\* The number of edges whose active flag is set.
ActiveCount(actives) == Cardinality({id \in DOMAIN actives : actives[id]})

\* The pending edge was drawn from a node of the list, and the id of the edge
\* to input inputIndex of another node nodeIndex is in an adjacency list.
DuplicateRelease(nodeIndex, inputIndex) ==
  /\ newEdge.drawing
  /\ newEdge.sourceNode \in Ordinals(nodesData)
  /\ newEdge.sourceNode # nodeIndex
  /\ LET edgeId == getEdgeId(At(nodesData, newEdge.sourceNode).id,
                             newEdge.sourceOutput,
                             At(nodesData, nodeIndex).id, inputIndex)
     IN \/ Includes(At(nodesData, newEdge.sourceNode).edgesOut, edgeId)
        \/ Includes(At(nodesData, nodeIndex).edgesIn, edgeId)

EdgeProps(id, edgeInfo) ==
  [id |-> id, sourceNode |-> edgeInfo.outNodeId,
   sourceOutput |-> edgeInfo.outputIndex, targetNode |-> edgeInfo.inNodeId,
   targetInput |-> edgeInfo.inputIndex]

\* The list holds each active edge of the given maps once, and nothing else.
IsActiveList(list, actives, enodes) ==
  /\ SeqToSet(list) =
       {EdgeProps(id, enodes[id]) :
          id \in {k \in DOMAIN actives : actives[k]}}
  /\ \A j, k \in 1 .. Len(list) : list[j].id = list[k].id => j = k

\* C5: a list that onInputRelease or onDeleteEdge reports to the host holds
\* exactly the edges whose active flag is set when the handler reports, each
\* with the endpoint fields recorded for its id; both handlers report
\* whenever they change an active flag.
C5_ReportedListIsActiveSet ==
  [][last'.op \in {"onInputMouseUp", "onDeleteEdge"} =>
       /\ calls' # <<>> =>
            /\ Len(calls') = 1
            /\ calls'[1].cb = "onEdgesChange"
            /\ IsActiveList(calls'[1].edges, edgesActives', edgesNodes')
       /\ edgesActives' # edgesActives => calls' # <<>>]_vars

\* An edge was created while one edge was active and another was not: the
\* report holds the two active ones only.
C5_Witness ==
  /\ last.op = "onInputMouseUp"
  /\ last.outcome = "created"
  /\ Len(calls) = 1
  /\ Len(calls[1].edges) = 2
  /\ \E id \in DOMAIN edgesActives : ~edgesActives[id]

\* The pending edge was drawn from output newEdge.sourceOutput of a node of
\* the list, and the id of the edge to input inputIndex of another node
\* nodeIndex is in neither adjacency list.
FreshRelease(nodeIndex, inputIndex) ==
  /\ newEdge.drawing
  /\ newEdge.sourceNode \in Ordinals(nodesData)
  /\ newEdge.sourceOutput < At(nodesData, newEdge.sourceNode).outputs
  /\ newEdge.sourceNode # nodeIndex
  /\ LET edgeId == getEdgeId(At(nodesData, newEdge.sourceNode).id,
                             newEdge.sourceOutput,
                             At(nodesData, nodeIndex).id, inputIndex)
     IN /\ ~Includes(At(nodesData, newEdge.sourceNode).edgesOut, edgeId)
        /\ ~Includes(At(nodesData, nodeIndex).edgesIn, edgeId)

Occurrences(s, v) == Cardinality({k \in 1 .. Len(s) : s[k] = v})

\* C6: releasing the pending edge drawn from (s, o) on input i of another
\* node t, with the edge id in neither adjacency list, creates that edge
\* once: the id is appended to s.edgesOut and t.edgesIn and nothing else of
\* the adjacency changes, its record is (s.id, o, t.id, i), it is active, its
\* ends are s's position plus the offset of output o and t's position plus
\* the offset of input i, no other record, flag or entry changes, the host
\* gets one onEdgesChange call, and the pending edge is Idle.
C6_FreshReleaseCreatesEdge ==
  [][(/\ last'.op = "onInputMouseUp"
      /\ FreshRelease(last'.nodeIndex, last'.inputIndex)) =>
       LET s == newEdge.sourceNode
           o == newEdge.sourceOutput
           t == last'.nodeIndex
           i == last'.inputIndex
           edgeId == getEdgeId(At(nodesData, s).id, o, At(nodesData, t).id, i)
       IN /\ Len(nodesData') = Len(nodesData)
          /\ \A k \in Ordinals(nodesData) :
               /\ At(nodesData', k).edgesOut =
                    IF k = s THEN Append(At(nodesData, k).edgesOut, edgeId)
                    ELSE At(nodesData, k).edgesOut
               /\ At(nodesData', k).edgesIn =
                    IF k = t THEN Append(At(nodesData, k).edgesIn, edgeId)
                    ELSE At(nodesData, k).edgesIn
               /\ At(nodesData', k).id = At(nodesData, k).id
          /\ Occurrences(At(nodesData', s).edgesOut, edgeId) = 1
          /\ Occurrences(At(nodesData', t).edgesIn, edgeId) = 1
          /\ edgeId \in DOMAIN edgesNodes'
          /\ edgesNodes'[edgeId] =
               [outNodeId |-> At(nodesData, s).id, outputIndex |-> o,
                inNodeId |-> At(nodesData, t).id, inputIndex |-> i]
          /\ \A id \in (DOMAIN edgesNodes') \ {edgeId} :
               id \in DOMAIN edgesNodes /\ edgesNodes'[id] = edgesNodes[id]
          /\ edgeId \in DOMAIN edgesActives' /\ edgesActives'[edgeId]
          /\ \A id \in (DOMAIN edgesActives') \ {edgeId} :
               id \in DOMAIN edgesActives
               /\ edgesActives'[id] = edgesActives[id]
          /\ edgeId \in DOMAIN edgesPositions'
          /\ edgesPositions'[edgeId] =
               [x0 |-> At(nodesPositions, s).x
                       + At(At(nodesOffsets, s).outputs, o).x,
                y0 |-> At(nodesPositions, s).y
                       + At(At(nodesOffsets, s).outputs, o).y,
                x1 |-> At(nodesPositions, t).x
                       + At(At(nodesOffsets, t).inputs, i).x,
                y1 |-> At(nodesPositions, t).y
                       + At(At(nodesOffsets, t).inputs, i).y]
          /\ \A id \in (DOMAIN edgesPositions') \ {edgeId} :
               id \in DOMAIN edgesPositions
               /\ edgesPositions'[id] = edgesPositions[id]
          /\ UNCHANGED <<nodesPositions, nodesOffsets>>
          /\ Len(calls') = 1
          /\ calls'[1].cb = "onEdgesChange"
          /\ newEdge' = NoEdge]_vars

\* An edge from the second output of a dragged node was created.
C6_Witness ==
  /\ last.op = "onInputMouseUp"
  /\ last.outcome = "created"
  /\ newEdge = NoEdge
  /\ \E id \in DOMAIN edgesNodes :
       /\ edgesNodes[id].outputIndex = 1
       /\ edgesNodes[id].inputIndex = last.inputIndex
       /\ edgesNodes[id].inNodeId = At(nodesData, last.nodeIndex).id
       /\ edgesActives[id]
       /\ id \notin EdgeIdsOf(hostEdges)
       /\ \E k \in Ordinals(nodesData) :
            /\ At(nodesData, k).id = edgesNodes[id].outNodeId
            /\ At(nodesPositions, k) # At(Layout(hostNodes, hostEdges), k)

\* C7: onDeleteEdge(E), the two nodes of E being in the list, removes E from
\* the source's edgesOut and the target's edgesIn and changes no other
\* adjacency list, clears E's active flag and no other flag, and reports one
\* list to the host: the remaining active edges, without E.
C7_DeleteEdgeRemovesAndReports ==
  [][(/\ last'.op = "onDeleteEdge"
      /\ FindIndex(nodesData, edgesNodes[last'.edgeId].outNodeId) # -1
      /\ FindIndex(nodesData, edgesNodes[last'.edgeId].inNodeId) # -1) =>
       LET E == last'.edgeId
           s == FindIndex(nodesData, edgesNodes[E].outNodeId)
           t == FindIndex(nodesData, edgesNodes[E].inNodeId)
           Without(ids) == SelectSeq(ids, LAMBDA id : id # E)
       IN /\ Len(nodesData') = Len(nodesData)
          /\ ~Includes(At(nodesData', s).edgesOut, E)
          /\ ~Includes(At(nodesData', t).edgesIn, E)
          /\ \A k \in Ordinals(nodesData) :
               /\ At(nodesData', k).edgesOut =
                    IF k = s THEN Without(At(nodesData, k).edgesOut)
                    ELSE At(nodesData, k).edgesOut
               /\ At(nodesData', k).edgesIn =
                    IF k = t THEN Without(At(nodesData, k).edgesIn)
                    ELSE At(nodesData, k).edgesIn
               /\ At(nodesData', k).id = At(nodesData, k).id
          /\ DOMAIN edgesActives' = DOMAIN edgesActives
          /\ ~edgesActives'[E]
          /\ \A id \in (DOMAIN edgesActives) \ {E} :
               edgesActives'[id] = edgesActives[id]
          /\ UNCHANGED <<edgesNodes, edgesPositions, nodesPositions,
                         nodesOffsets, newEdge>>
          /\ Len(calls') = 1
          /\ calls'[1].cb = "onEdgesChange"
          /\ IsActiveList(calls'[1].edges, edgesActives', edgesNodes')
          /\ SeqToSet(calls'[1].edges) =
               {EdgeProps(id, edgesNodes[id]) :
                  id \in {k \in DOMAIN edgesActives : edgesActives[k]} \ {E}}
          /\ \A k \in 1 .. Len(calls'[1].edges) :
               calls'[1].edges[k].id # E]_vars

\* One of two active edges was deleted: the other one is reported.
C7_Witness ==
  /\ last.op = "onDeleteEdge"
  /\ last.outcome = "ok"
  /\ ~edgesActives[last.edgeId]
  /\ Len(calls) = 1
  /\ Len(calls[1].edges) = 1
  /\ \A k \in Ordinals(nodesData) :
       /\ ~Includes(At(nodesData, k).edgesIn, last.edgeId)
       /\ ~Includes(At(nodesData, k).edgesOut, last.edgeId)

\* The edge is active and one of its ends is on the node with this id.
ActiveAt(id, nodeId) ==
  /\ id \in DOMAIN edgesActives
  /\ edgesActives[id]
  /\ id \in DOMAIN edgesNodes
  /\ edgesNodes[id].outNodeId = nodeId \/ edgesNodes[id].inNodeId = nodeId

\* The entry of the edge is the same before and after the step.
SameEntry(id) ==
  IF id \in DOMAIN edgesPositions
  THEN id \in DOMAIN edgesPositions' /\ edgesPositions'[id] = edgesPositions[id]
  ELSE id \notin DOMAIN edgesPositions'

\* C8: onNodeMove(n, x, y) with press offset (dx, dy) puts n at
\* (x - dx, y - dy) and moves no other node; of every active edge incident on
\* n, each end on n is at n's new position plus the offset of its port and an
\* end on another node is unchanged; the entries of inactive edges and of
\* edges not incident on n are unchanged.
C8_MoveUpdatesEndsOfIncidentActiveEdges ==
  [][last'.op = "onNodeMove" =>
       LET n == last'.nodeIndex
           nodeId == At(nodesData, n).id
           position == Pos(last'.x - clickedDelta.x, last'.y - clickedDelta.y)
           offsets == At(nodesOffsets, n)
       IN /\ Len(nodesPositions') = Len(nodesPositions)
          /\ \A k \in Ordinals(nodesPositions) :
               At(nodesPositions', k) =
                 IF k = n THEN position ELSE At(nodesPositions, k)
          /\ \A id \in (DOMAIN edgesPositions) \cup (DOMAIN edgesPositions')
                          \cup (DOMAIN edgesActives) :
               IF ActiveAt(id, nodeId)
               THEN /\ id \in DOMAIN edgesPositions'
                    /\ IF edgesNodes[id].outNodeId = nodeId
                       THEN LET offset ==
                                  At(offsets.outputs,
                                     edgesNodes[id].outputIndex)
                            IN /\ edgesPositions'[id].x0 =
                                    position.x + offset.x
                               /\ edgesPositions'[id].y0 =
                                    position.y + offset.y
                       ELSE /\ edgesPositions'[id].x0 =
                                 FieldOr0(edgesPositions, id, "x0")
                            /\ edgesPositions'[id].y0 =
                                 FieldOr0(edgesPositions, id, "y0")
                    /\ IF edgesNodes[id].inNodeId = nodeId
                       THEN LET offset ==
                                  At(offsets.inputs,
                                     edgesNodes[id].inputIndex)
                            IN /\ edgesPositions'[id].x1 =
                                    position.x + offset.x
                               /\ edgesPositions'[id].y1 =
                                    position.y + offset.y
                       ELSE /\ edgesPositions'[id].x1 =
                                 FieldOr0(edgesPositions, id, "x1")
                            /\ edgesPositions'[id].y1 =
                                 FieldOr0(edgesPositions, id, "y1")
               ELSE SameEntry(id)]_vars

\* C9: onNodeMount(n, inputs, outputs) makes the measured offsets n's port
\* offsets, sets the active flag of the edges of n's edgesIn and edgesOut and
\* of no other edge, and puts each end of such an edge that is on n at n's
\* position plus the measured offset of its port; the far end keeps its value
\* when the edge had an entry and is (0, 0) when it had none.
C9_MountActivatesAndAnchorsEdges ==
  [][last'.op = "onNodeMount" =>
       LET n == last'.nodeIndex
           node == At(nodesData, n)
           position == At(nodesPositions, n)
           mine == SeqToSet(node.edgesIn) \cup SeqToSet(node.edgesOut)
       IN /\ Len(nodesOffsets') = Len(nodesOffsets)
          /\ \A k \in Ordinals(nodesOffsets) :
               At(nodesOffsets', k) =
                 IF k = n
                 THEN [inputs |-> last'.inputs, outputs |-> last'.outputs]
                 ELSE At(nodesOffsets, k)
          /\ DOMAIN edgesActives' = (DOMAIN edgesActives) \cup mine
          /\ \A id \in DOMAIN edgesActives' :
               edgesActives'[id] = IF id \in mine THEN TRUE
                                   ELSE edgesActives[id]
          /\ DOMAIN edgesPositions' = (DOMAIN edgesPositions) \cup mine
          /\ \A id \in (DOMAIN edgesPositions) \ mine : SameEntry(id)
          /\ \A id \in mine :
               /\ IF id \in SeqToSet(node.edgesOut)
                  THEN LET offset ==
                             At(last'.outputs, edgesNodes[id].outputIndex)
                       IN /\ edgesPositions'[id].x0 = position.x + offset.x
                          /\ edgesPositions'[id].y0 = position.y + offset.y
                  ELSE /\ edgesPositions'[id].x0 =
                            FieldOr0(edgesPositions, id, "x0")
                       /\ edgesPositions'[id].y0 =
                            FieldOr0(edgesPositions, id, "y0")
               /\ IF id \in SeqToSet(node.edgesIn)
                  THEN LET offset ==
                             At(last'.inputs, edgesNodes[id].inputIndex)
                       IN /\ edgesPositions'[id].x1 = position.x + offset.x
                          /\ edgesPositions'[id].y1 = position.y + offset.y
                  ELSE /\ edgesPositions'[id].x1 =
                            FieldOr0(edgesPositions, id, "x1")
                       /\ edgesPositions'[id].y1 =
                            FieldOr0(edgesPositions, id, "y1")]_vars

\* C10: a second onNodeMove with the node and coordinates of the onNodeMove
\* just before it changes no node position and no edge endpoint entry.
C10_RepeatedMoveChangesNothing ==
  [][(/\ last.op = "onNodeMove"
      /\ last'.op = "onNodeMove"
      /\ last'.nodeIndex = last.nodeIndex
      /\ last'.x = last.x
      /\ last'.y = last.y) =>
       UNCHANGED <<nodesPositions, edgesPositions>>]_vars

\* A node with an active edge was moved twice to the same place, away from
\* where the layout had put it.
C10_Witness ==
  /\ last.op = "onNodeMove"
  /\ last.repeated
  /\ At(nodesPositions, last.nodeIndex)
       # At(Layout(hostNodes, hostEdges), last.nodeIndex)
  /\ \E id \in DOMAIN edgesActives :
       /\ edgesActives[id]
       /\ Includes(At(nodesData, last.nodeIndex).edgesOut, id)

\* The edges of the maps whose source node and target node are the same.
SelfEdges(enodes) ==
  {id \in DOMAIN enodes : enodes[id].outNodeId = enodes[id].inNodeId}

\* C11: releasing the pending edge drawn from node s on an input of s makes
\* the pending edge Idle and changes nothing else: no adjacency list, edge
\* record, active flag, endpoint entry, position or offset, and the host is
\* not notified; and no gesture adds an edge whose source and target are the
\* same node to the edge records or to an adjacency list.
C11_SelfConnectionForbidden ==
  [][/\ (/\ last'.op = "onInputMouseUp"
         /\ newEdge.drawing
         /\ newEdge.sourceNode = last'.nodeIndex) =>
          /\ newEdge' = NoEdge
          /\ UNCHANGED <<derivedVars, hostVars, prevEdgesRef, clickedDelta>>
          /\ calls' = <<>>
     /\ last'.op # "hostUpdate" =>
          /\ SelfEdges(edgesNodes') \subseteq SelfEdges(edgesNodes)
          /\ \A k \in Ordinals(nodesData') :
               \A id \in SeqToSet(At(nodesData', k).edgesIn)
                          \cap SeqToSet(At(nodesData', k).edgesOut) :
                 /\ k \in Ordinals(nodesData)
                 /\ Includes(At(nodesData, k).edgesIn, id)
                 /\ Includes(At(nodesData, k).edgesOut, id)]_vars

\* With an active edge on the node, a pending edge drawn from it was released
\* on its own input.
C11_Witness ==
  /\ last.op = "onInputMouseUp"
  /\ last.outcome = "self"
  /\ newEdge = NoEdge
  /\ calls = <<>>
  /\ \E id \in DOMAIN edgesActives :
       /\ edgesActives[id]
       /\ Includes(At(nodesData, last.nodeIndex).edgesOut, id)
  /\ SelfEdges(edgesNodes) = {}

\* C12: onMouseUp leaves the pending edge Idle; onMouseMove(x, y) while
\* Drawing sets the free end of the pending edge to (x, y) and keeps its
\* source node, source output and fixed end, and while Idle changes nothing;
\* neither changes positions, offsets, adjacency lists, edge records, active
\* flags or endpoint entries, and neither notifies the host.
C12_PointerMoveAndMouseUpKeepStructure ==
  [][/\ last'.op = "onMouseUp" => newEdge' = NoEdge
     /\ last'.op = "onMouseMove" =>
          IF newEdge.drawing
          THEN /\ newEdge'.drawing
               /\ newEdge'.position.x1 = last'.x
               /\ newEdge'.position.y1 = last'.y
               /\ newEdge'.position.x0 = newEdge.position.x0
               /\ newEdge'.position.y0 = newEdge.position.y0
               /\ newEdge'.sourceNode = newEdge.sourceNode
               /\ newEdge'.sourceOutput = newEdge.sourceOutput
          ELSE newEdge' = newEdge
     /\ last'.op \in {"onMouseUp", "onMouseMove"} =>
          /\ UNCHANGED <<derivedVars, hostVars, prevEdgesRef, clickedDelta>>
          /\ calls' = <<>>]_vars

\* With an active edge in the diagram, the free end of a pending edge has
\* followed the pointer away from its fixed end.
C12_Witness ==
  /\ last.op = "onMouseMove"
  /\ newEdge.drawing
  /\ newEdge.position.x1 = last.x
  /\ newEdge.position.y1 = last.y
  /\ newEdge.position.x0 # newEdge.position.x1
  /\ \E id \in DOMAIN edgesActives : edgesActives[id]

\* The preceding operation added the edge last.added, which was not active.
AddedBefore ==
  /\ "added" \in DOMAIN last
  /\ last.added # ""
  /\ last.added \notin last.before.active

\* This step is an onDeleteEdge of the edge just added that found both nodes.
DeleteRemoves ==
  /\ last'.op = "onDeleteEdge"
  /\ last'.edgeId = last.added
  /\ last'.outcome = "ok"

\* This step is the host supplying its edge list without the edge just added.
HostRemoves ==
  /\ last'.op = "hostUpdate"
  /\ hostNodes' = hostNodes
  /\ last.added \in EdgeIdsOf(hostEdges)
  /\ hostEdges' = SelectSeq(hostEdges, LAMBDA edge : edge.id # last.added)

AppendsDisconnectedNode ==
  /\ Len(hostNodes') = Len(hostNodes) + 1
  /\ SubSeq(hostNodes', 1, Len(hostNodes)) = hostNodes
  /\ \A k \in 1 .. Len(hostEdges) :
       /\ hostEdges[k].sourceNode # hostNodes'[Len(hostNodes')].id
       /\ hostEdges[k].targetNode # hostNodes'[Len(hostNodes')].id

\* C14: when the host appends a disconnected node to its node list and keeps
\* its edges array, every node that the engine already had keeps the position
\* it had in the engine.
C14_AddNodeKeepsPositions ==
  [][(/\ last'.op = "hostUpdate"
      /\ hostEdgesRef' = hostEdgesRef
      /\ hostEdges' = hostEdges
      /\ Len(nodesPositions) = Len(hostNodes)
      /\ AppendsDisconnectedNode) =>
       \A k \in 1 .. Len(nodesPositions) :
         nodesPositions'[k] = nodesPositions[k]]_vars

\* The derived state is a snapshot the builder has just produced.
JustBuilt ==
  \/ last.op = "construct"
  \/ last.op = "hostUpdate" /\ last.outcome = "rebuilt"

\* The host's edges that reference only nodes of its node list.
Resolvable(nodes, edges) ==
  SelectSeq(edges, LAMBDA edge : /\ HasNode(nodes, edge.sourceNode)
                                 /\ HasNode(nodes, edge.targetNode))

C17_EdgeIdInjective ==
  last.op = "getEdgeId" =>
    (last.first = last.second <=> last.firstId = last.secondId)

\* C18: no operation raises; an onDeleteEdge of an active edge completes with
\* the edge inactive and one list reported to the host, also when the source
\* or the target node of the edge is not in the node list.
C18_NoOperationRaises ==
  /\ last.outcome # "raised"
  /\ last.op = "onDeleteEdge" =>
       /\ ~edgesActives[last.edgeId]
       /\ Len(calls) = 1
       /\ calls[1].cb = "onEdgesChange"

\* The ids of the nodes of the engine's node list.
EngineNodeIds == {nodesData[k].id : k \in 1 .. Len(nodesData)}

\* The edge record references a node that is not in the engine's node list.
MissesNode(edgeInfo) ==
  \/ edgeInfo.outNodeId \notin EngineNodeIds
  \/ edgeInfo.inNodeId \notin EngineNodeIds

\* C19: every active edge has its source node and its target node in the
\* engine's node list; an edge that references a missing node is not active,
\* has no endpoint entry, and is in no list reported to the host.
C19_ActiveEdgesHaveBothNodes ==
  /\ \A id \in DOMAIN edgesActives :
       edgesActives[id] =>
         id \in DOMAIN edgesNodes /\ ~MissesNode(edgesNodes[id])
  /\ \A id \in DOMAIN edgesNodes :
       MissesNode(edgesNodes[id]) =>
         /\ id \in DOMAIN edgesActives => ~edgesActives[id]
         /\ id \notin DOMAIN edgesPositions
  /\ \A c \in 1 .. Len(calls) :
       calls[c].cb = "onEdgesChange" =>
         \A k \in 1 .. Len(calls[c].edges) :
           /\ calls[c].edges[k].sourceNode \in EngineNodeIds
           /\ calls[c].edges[k].targetNode \in EngineNodeIds

\* Every id of an adjacency list has a record that names the node at that
\* end; withActive: and its active flag is set.
AdjacencyHasRecords(data, enodes, actives, withActive) ==
  \A k \in 1 .. Len(data) :
    /\ \A id \in SeqToSet(data[k].edgesIn) :
         /\ id \in DOMAIN enodes
         /\ enodes[id].inNodeId = data[k].id
         /\ id \in DOMAIN actives
         /\ withActive => actives[id]
    /\ \A id \in SeqToSet(data[k].edgesOut) :
         /\ id \in DOMAIN enodes
         /\ enodes[id].outNodeId = data[k].id
         /\ id \in DOMAIN actives
         /\ withActive => actives[id]

AdjacencyIds(data) ==
  UNION {SeqToSet(data[k].edgesIn) \cup SeqToSet(data[k].edgesOut) :
           k \in 1 .. Len(data)}

C21_NoStaleOrdinalAfterRebuild ==
  [][(/\ last'.op = "onInputMouseUp"
      /\ newEdge.drawing
      /\ pressed.rebuilt) =>
       /\ last'.outcome # "raised"
       /\ last'.outcome = "created" =>
            /\ edgesNodes'[last'.added].outNodeId = pressed.id
            /\ \A c \in 1 .. Len(calls') :
                 \A k \in 1 .. Len(calls'[c].edges) :
                   calls'[c].edges[k].id = last'.added =>
                     calls'[c].edges[k].sourceNode = pressed.id]_vars

\* The new edge of the handler that is between its writes is registered in
\* the order of the claim: its endpoint entry, its active flag and its
\* endpoint-reference record are there before its id is in an adjacency
\* list.
NewEdgeRegisteredFirst ==
  /\ last.written >= 1 => last.added \in DOMAIN edgesPositions
  /\ last.written >= 2 =>
       last.added \in DOMAIN edgesActives /\ edgesActives[last.added]
  /\ last.written >= 3 =>
       /\ last.added \in DOMAIN edgesNodes
       /\ edgesNodes[last.added] =
            NewEdgeNode(last.nodeIndex, last.inputIndex)
  /\ last.added \in AdjacencyIds(nodesData) <=>
       last.written = Len(CreationOrder)
  /\ last.added \in AdjacencyIds(nodesData) =>
       /\ last.added \in DOMAIN edgesPositions
       /\ last.added \in DOMAIN edgesNodes
       /\ last.added \in DOMAIN edgesActives
       /\ edgesActives[last.added]

\* C22 as stated: between the writes of the creation branch of
\* onInputMouseUp the new edge's endpoint entry, active flag and record are
\* written before its id is appended to edgesOut and edgesIn, and every id
\* of every adjacency list has an endpoint-reference record and an endpoint
\* entry.
C22_Original_AdjacencyRegistered ==
  ~Quiet =>
    /\ NewEdgeRegisteredFirst
    /\ \A id \in AdjacencyIds(nodesData) :
         id \in DOMAIN edgesNodes /\ id \in DOMAIN edgesPositions

\* C22 (amended): between the writes of the creation branch of onInputMouseUp
\* the new edge's endpoint entry, active flag and record are written before
\* its id is appended to edgesOut and edgesIn, every id of every adjacency
\* list has an endpoint-reference record, and it has an endpoint entry
\* unless its record references a node that is not in the node list.
C22_CreationWritesBeforeAdjacency ==
  ~Quiet =>
    /\ NewEdgeRegisteredFirst
    /\ \A id \in AdjacencyIds(nodesData) :
         /\ id \in DOMAIN edgesNodes
         /\ id \in DOMAIN edgesPositions \/ MissesNode(edgesNodes[id])

\* The handler has written the new edge's entry, flag and record and not yet
\* the adjacency lists, in a diagram with an edge to a missing node that has
\* no endpoint entry.
C22_Witness ==
  /\ ~Quiet
  /\ last.written = 3
  /\ last.added \in DOMAIN edgesNodes
  /\ last.added \notin AdjacencyIds(nodesData)
  /\ \E id \in AdjacencyIds(nodesData) :
       id \notin DOMAIN edgesPositions /\ MissesNode(edgesNodes[id])

\* The offset of port `index` among `total` ports from the node's corner.
CornerOffset(x, total, index) ==
  Pos(x, (index + 1) * PortSpacing - (total + 1) * PortHalfSpacing)

\* C23: in a snapshot the builder has just produced, the offset of port p
\* among the k ports of one side of a node is x = 0 for an input and x = 200
\* for an output, y = (p + 1) * 20 - (k + 1) * 10, whatever the position of
\* the node; the position of the node plus the offset is the anchor of the
\* port, which is where onOutputMouseDown starts a pending edge.
C23_ProvisionalOffsetsFromCorner ==
  /\ JustBuilt =>
       /\ Len(nodesOffsets) = Len(nodesData)
       /\ \A k \in 1 .. Len(nodesData) :
            /\ Len(nodesOffsets[k].inputs) = nodesData[k].inputs
            /\ Len(nodesOffsets[k].outputs) = nodesData[k].outputs
            /\ \A p \in 1 .. nodesData[k].inputs :
                 nodesOffsets[k].inputs[p] =
                   CornerOffset(0, nodesData[k].inputs, p - 1)
            /\ \A p \in 1 .. nodesData[k].outputs :
                 nodesOffsets[k].outputs[p] =
                   CornerOffset(NodeWidth, nodesData[k].outputs, p - 1)
  /\ (last.op = "onOutputMouseDown"
        /\ nodesOffsets = InitNodesOffsets(hostNodes)) =>
       LET position == At(nodesPositions, last.nodeIndex)
           total == At(nodesData, last.nodeIndex).outputs
           anchor == CornerOffset(NodeWidth, total, last.outputIndex)
       IN /\ newEdge.position.x0 = position.x + anchor.x
          /\ newEdge.position.y0 = position.y + anchor.y

\* The two ends of the edge are at its nodes' positions plus the offsets of
\* its ports.
IsAnchored(id) ==
  LET edgeInfo == edgesNodes[id]
      source == FindIndex(nodesData, edgeInfo.outNodeId)
      target == FindIndex(nodesData, edgeInfo.inNodeId)
      outputOffset == At(At(nodesOffsets, source).outputs, edgeInfo.outputIndex)
      inputOffset == At(At(nodesOffsets, target).inputs, edgeInfo.inputIndex)
  IN /\ id \in DOMAIN edgesPositions
     /\ edgesPositions[id].x0 = At(nodesPositions, source).x + outputOffset.x
     /\ edgesPositions[id].y0 = At(nodesPositions, source).y + outputOffset.y
     /\ edgesPositions[id].x1 = At(nodesPositions, target).x + inputOffset.x
     /\ edgesPositions[id].y1 = At(nodesPositions, target).y + inputOffset.y

\* The active edges whose nodes are both in the node list and have both been
\* mounted since the last rebuild.
MountedActiveEdges ==
  {id \in ActiveSet(edgesActives) :
     /\ id \in DOMAIN edgesNodes
     /\ ~MissesNode(edgesNodes[id])
     /\ FindIndex(nodesData, edgesNodes[id].outNodeId) \in mounted
     /\ FindIndex(nodesData, edgesNodes[id].inNodeId) \in mounted}

\* C24: in every reachable state, every active edge whose source and target
\* nodes are both in the node list and have both been mounted since the last
\* rebuild has (x0, y0) at the source node's position plus the offset of its
\* output port and (x1, y1) at the target node's position plus the offset of
\* its input port, also when its source and its target are the same node.
C24_GeometryConsistent ==
  \A id \in MountedActiveEdges : IsAnchored(id)

\* C25: after a host update has been reconciled the engine's node list has
\* the length of the host's node list and the same node id at every ordinal,
\* also when the host has replaced a node by a node with another id and kept
\* the node count and the edges array.
C25_NodeListMatchesHost ==
  last.op = "hostUpdate" =>
    /\ Len(nodesData) = Len(hostNodes)
    /\ \A k \in 1 .. Len(nodesData) : nodesData[k].id = hostNodes[k].id

\* The host holds the lists the engine's structure corresponds to: it has
\* stored what the engine reported, and the engine has rebuilt from it.
HostInSync ==
  /\ calls = <<>>
  /\ Len(nodesData) = Len(hostNodes)
  /\ \A k \in 1 .. Len(nodesData) : nodesData[k].id = hostNodes[k].id
  /\ Adjacency(nodesData) = Adjacency(InitNodesData(hostNodes, hostEdges))
  /\ edgesNodes = InitEdgesNodes(hostEdges)

\* C26: when onInputMouseUp creates an edge E while the host holds the lists
\* of the engine, the list it reports contains E and every edge of the
\* host's edge list whose two nodes are in the node list, also when nodes
\* have not been mounted since the last rebuild.
C26_CreationReportsHostEdges ==
  [][(/\ last'.op = "onInputMouseUp"
      /\ last'.outcome = "created"
      /\ HostInSync) =>
       /\ Len(calls') = 1
       /\ calls'[1].cb = "onEdgesChange"
       /\ last'.added \in EdgeIdsOf(calls'[1].edges)
       /\ \A k \in 1 .. Len(hostEdges) :
            (/\ HasNode(hostNodes, hostEdges[k].sourceNode)
             /\ HasNode(hostNodes, hostEdges[k].targetNode)) =>
              Includes(calls'[1].edges, hostEdges[k])]_vars

====
